---- MODULE Spec2Model ----
(***************************************************************************)
(* Replay subsystem of kakiato: PlaybackEngine (src/player/engine.ts),     *)
(* StateReconstructor (src/player/state.ts) and the KakiatoPlayer that     *)
(* wires them (src/player/KakiatoPlayer.ts).                               *)
(*                                                                         *)
(* Time.  Date.now() is an integer number of milliseconds; the model keeps *)
(* it relative to an (integer) epoch base in `now`.  Every other time      *)
(* (startTime, pausedAt, getCurrentTime()) is a JavaScript double and is   *)
(* kept as an integer count of units of 1/UnitsPerMs ms.  A double next to *)
(* Date.now() (2^40 <= ms < 2^41 from 2004 to 2039) has 12 fraction bits,  *)
(* so `Date.now() - x` is rounded to the nearest 1/4096 ms: startTime is   *)
(* always a multiple of UnitsPerUlp units.  Doubles near 0 (pausedAt, the  *)
(* products with speed) carry these values exactly.                        *)
(***************************************************************************)
EXTENDS Integers, Sequences, FiniteSets, TLC

\* ---------------------------------------------------------------- bounds
MaxNow == 3
MaxSeek == 2
MaxText == 3
MaxHandlers == 2
MaxTimers == 2
MaxStartLen == 2
MaxRecorded == 2
MaxSessions == 2

\* ------------------------------------------------------ double arithmetic
UlpPerMs == 4096
UnitsPerUlp == 2
UnitsPerMs == UlpPerMs * UnitsPerUlp

\* a speed is the exact rational <<numerator, denominator>>
Speeds == {<<1, 2>>, <<1, 1>>, <<3, 1>>}
\* the speeds setSpeed rejects: zero and a negative one
BadSpeeds == {<<0, 1>>, <<-1, 1>>}
HandlerSpeed == <<3, 1>>

Max(a, b) == IF a >= b THEN a ELSE b
Min(a, b) == IF a <= b THEN a ELSE b

\* the integer nearest to a / b (b > 0), ties to even: IEEE round-to-nearest
RoundDiv(a, b) ==
  LET q == a \div b
      r == a % b
  IN IF 2 * r < b THEN q
     ELSE IF 2 * r > b THEN q + 1
     ELSE IF q % 2 = 0 THEN q ELSE q + 1

\* x * speed, x in units (exact: x is a multiple of UnitsPerUlp)
TimesSpeed(x, s) == (x * s[1]) \div s[2]

\* wallMs - x / speed as a double next to Date.now(): rounded to one ulp
WallMinus(wallMs, x, s) ==
  wallMs * UnitsPerMs - UnitsPerUlp * RoundDiv(x * s[2], s[1] * UnitsPerUlp)

\* ------------------------------------------------------------ optionals
None == <<>>
Some(x) == <<x>>
IsSome(o) == o /= <<>>
Get(o) == o[1]

\* --------------------------------------------------------------- events
\* KakiatoEvent: one record shape for the tagged union; absent optional
\* fields are None.  time is in milliseconds.
Ev(time, type) ==
  [time |-> time, type |-> type, inputType |-> "", data |-> None,
   text |-> None, pos |-> None, anchor |-> None, focus |-> None]

InputEv(time, inputType, data, text, pos) ==
  [Ev(time, "input") EXCEPT !.inputType = inputType, !.data = data,
                            !.text = text, !.pos = pos]

KeyEv(time, type, pos) == [Ev(time, type) EXCEPT !.pos = pos]

\* events[i] for an index past the array: JavaScript's undefined
Undefined == Ev(0, "undefined")

\* ------------------------------------------------- StateReconstructor
NewState(initialText) ==
  [text |-> initialText, cursorPosition |-> 0, selectionStart |-> 0,
   selectionEnd |-> 0, isComposing |-> FALSE, compositionText |-> <<>>]

\* String.prototype.substring(start, end): both clamped to [0, length],
\* swapped when start > end
Substring(str, start, end) ==
  LET a == Max(0, Min(start, Len(str)))
      b == Max(0, Min(end, Len(str)))
  IN SubSeq(str, Min(a, b) + 1, Max(a, b))

\* insertText() leaving the buffer alone when the data is already at pos
insertText_SkipDuplicate(st, pos, text) ==
  IF Substring(st.text, pos, pos + Len(text)) = text
  THEN [st EXCEPT !.cursorPosition = pos + Len(text)]
  ELSE [st EXCEPT !.text = Substring(st.text, 0, pos) \o text
                             \o Substring(st.text, pos, Len(st.text)),
                  !.cursorPosition = pos + Len(text)]

insertText(st, pos, text) ==
  [st EXCEPT !.text = Substring(st.text, 0, pos) \o text
                        \o Substring(st.text, pos, Len(st.text)),
             !.cursorPosition = pos + Len(text)]

\* deleteBackward() taking a position before the buffer as its first unit
deleteBackward_Clamp(st, pos) ==
  LET q == Max(1, pos)
  IN [st EXCEPT !.text = Substring(st.text, 0, q - 1)
                           \o Substring(st.text, q, Len(st.text)),
                !.cursorPosition = q - 1]

deleteBackward(st, pos) ==
  IF pos <= 0 THEN st
  ELSE [st EXCEPT !.text = Substring(st.text, 0, pos - 1)
                             \o Substring(st.text, pos, Len(st.text)),
                  !.cursorPosition = pos - 1]

deleteForward(st, pos) ==
  IF pos >= Len(st.text) THEN st
  ELSE [st EXCEPT !.text = Substring(st.text, 0, pos)
                             \o Substring(st.text, pos + 1, Len(st.text))]

\* handleInputEvent() trying the delta before the text snapshot
handleInputEvent_DeltaFirst(st, event) ==
  LET pos == IF IsSome(event.pos) THEN Get(event.pos) ELSE st.cursorPosition
      st1 == IF IsSome(event.data) THEN
               CASE event.inputType \in {"insertText", "insertCompositionText"}
                      -> insertText(st, pos, Get(event.data))
                 [] event.inputType = "deleteContentBackward"
                      -> deleteBackward(st, pos)
                 [] event.inputType = "deleteContentForward"
                      -> deleteForward(st, pos)
                 [] OTHER -> st
             ELSE IF IsSome(event.text) THEN [st EXCEPT !.text = Get(event.text)]
             ELSE st
  IN IF IsSome(event.pos) THEN [st1 EXCEPT !.cursorPosition = Get(event.pos)]
     ELSE st1

handleInputEvent(st, event) ==
  LET pos == IF IsSome(event.pos) THEN Get(event.pos) ELSE st.cursorPosition
      st1 == IF IsSome(event.text) THEN [st EXCEPT !.text = Get(event.text)]
             ELSE IF IsSome(event.data) THEN
               CASE event.inputType \in {"insertText", "insertCompositionText"}
                      -> insertText(st, pos, Get(event.data))
                 [] event.inputType = "deleteContentBackward"
                      -> deleteBackward(st, pos)
                 [] event.inputType = "deleteContentForward"
                      -> deleteForward(st, pos)
                 [] OTHER -> st
             ELSE st
  IN IF IsSome(event.pos) THEN [st1 EXCEPT !.cursorPosition = Get(event.pos)]
     ELSE st1

\* handleSelectionChange() leaving the cursor at the lower bound
handleSelectionChange_CursorLow(st, event) ==
  LET anchor == Get(event.anchor)
      focus == Get(event.focus)
  IN [st EXCEPT !.selectionStart = Min(anchor, focus),
                !.selectionEnd = Max(anchor, focus),
                !.cursorPosition = Min(anchor, focus)]

handleSelectionChange(st, event) ==
  LET anchor == Get(event.anchor)
      focus == Get(event.focus)
  IN [st EXCEPT !.selectionStart = Min(anchor, focus),
                !.selectionEnd = Max(anchor, focus),
                !.cursorPosition = focus]

\* applyEvent raises a TypeError when it reads a property of undefined:
\* an undefined event, or a selectionchange without anchor or focus
ApplyThrows(event) ==
  \/ event.type = "undefined"
  \/ event.type = "selectionchange"
       /\ (~IsSome(event.anchor) \/ ~IsSome(event.focus))

\* applyEvent() writing the string of a compositionupdate into the buffer
applyEvent_UpdateIntoText(st, event) ==
  CASE event.type = "input" -> handleInputEvent(st, event)
    [] event.type = "compositionstart"
         -> [st EXCEPT !.isComposing = TRUE,
                       !.compositionText =
                          IF IsSome(event.data) THEN Get(event.data) ELSE <<>>]
    [] event.type = "compositionupdate"
         -> LET d == IF IsSome(event.data) THEN Get(event.data) ELSE <<>>
            IN insertText([st EXCEPT !.compositionText = d], st.cursorPosition, d)
    [] event.type = "compositionend"
         -> [st EXCEPT !.isComposing = FALSE, !.compositionText = <<>>]
    [] event.type = "selectionchange" -> handleSelectionChange(st, event)
    [] event.type \in {"keydown", "keyup"}
         -> IF IsSome(event.pos) THEN [st EXCEPT !.cursorPosition = Get(event.pos)]
            ELSE st
    [] OTHER -> st

\* applyEvent() keeping the string of a compositionend in compositionText
applyEvent_EndKeepsText(st, event) ==
  CASE event.type = "input" -> handleInputEvent(st, event)
    [] event.type = "compositionstart"
         -> [st EXCEPT !.isComposing = TRUE,
                       !.compositionText =
                          IF IsSome(event.data) THEN Get(event.data) ELSE <<>>]
    [] event.type = "compositionupdate"
         -> [st EXCEPT !.compositionText =
                          IF IsSome(event.data) THEN Get(event.data) ELSE <<>>]
    [] event.type = "compositionend"
         -> [st EXCEPT !.isComposing = FALSE,
                       !.compositionText =
                          IF IsSome(event.data) THEN Get(event.data) ELSE <<>>]
    [] event.type = "selectionchange" -> handleSelectionChange(st, event)
    [] event.type \in {"keydown", "keyup"}
         -> IF IsSome(event.pos) THEN [st EXCEPT !.cursorPosition = Get(event.pos)]
            ELSE st
    [] OTHER -> st

\* applyEvent() collapsing the selection onto the position of a key event
applyEvent_KeyCollapses(st, event) ==
  CASE event.type = "input" -> handleInputEvent(st, event)
    [] event.type = "compositionstart"
         -> [st EXCEPT !.isComposing = TRUE,
                       !.compositionText =
                          IF IsSome(event.data) THEN Get(event.data) ELSE <<>>]
    [] event.type = "compositionupdate"
         -> [st EXCEPT !.compositionText =
                          IF IsSome(event.data) THEN Get(event.data) ELSE <<>>]
    [] event.type = "compositionend"
         -> [st EXCEPT !.isComposing = FALSE, !.compositionText = <<>>]
    [] event.type = "selectionchange" -> handleSelectionChange(st, event)
    [] event.type \in {"keydown", "keyup"}
         -> IF IsSome(event.pos)
            THEN [st EXCEPT !.cursorPosition = Get(event.pos),
                            !.selectionStart = Get(event.pos),
                            !.selectionEnd = Get(event.pos)]
            ELSE st
    [] OTHER -> st

\* applyEvent() starting over from the buffer on an event it does not know
applyEvent_UnknownResets(st, event) ==
  CASE event.type = "input" -> handleInputEvent(st, event)
    [] event.type = "compositionstart"
         -> [st EXCEPT !.isComposing = TRUE,
                       !.compositionText =
                          IF IsSome(event.data) THEN Get(event.data) ELSE <<>>]
    [] event.type = "compositionupdate"
         -> [st EXCEPT !.compositionText =
                          IF IsSome(event.data) THEN Get(event.data) ELSE <<>>]
    [] event.type = "compositionend"
         -> [st EXCEPT !.isComposing = FALSE, !.compositionText = <<>>]
    [] event.type = "selectionchange" -> handleSelectionChange(st, event)
    [] event.type \in {"keydown", "keyup"}
         -> IF IsSome(event.pos) THEN [st EXCEPT !.cursorPosition = Get(event.pos)]
            ELSE st
    [] OTHER -> NewState(st.text)

applyEvent(st, event) ==
  CASE event.type = "input" -> handleInputEvent(st, event)
    [] event.type = "compositionstart"
         -> [st EXCEPT !.isComposing = TRUE,
                       !.compositionText =
                          IF IsSome(event.data) THEN Get(event.data) ELSE <<>>]
    [] event.type = "compositionupdate"
         -> [st EXCEPT !.compositionText =
                          IF IsSome(event.data) THEN Get(event.data) ELSE <<>>]
    [] event.type = "compositionend"
         -> [st EXCEPT !.isComposing = FALSE, !.compositionText = <<>>]
    [] event.type = "selectionchange" -> handleSelectionChange(st, event)
    [] event.type \in {"keydown", "keyup"}
         -> IF IsSome(event.pos) THEN [st EXCEPT !.cursorPosition = Get(event.pos)]
            ELSE st
    [] OTHER -> st

\* the fold of applyEvent over a sequence of events
RECURSIVE ApplyAll(_, _)
ApplyAll(st, evs) ==
  IF evs = <<>> THEN st ELSE ApplyAll(applyEvent(st, Head(evs)), Tail(evs))


\* ------------------------------------------------------------ documents
\* a string is the sequence of its UTF-16 units
DocHi ==
  [initial_text |-> <<>>,
   events |-> << InputEv(0, "insertText", Some(<<"h">>), Some(<<"h">>), Some(1)),
                 InputEv(1, "insertText", Some(<<"i">>), Some(<<"h", "i">>), Some(2)) >>]

DocDelta ==
  [initial_text |-> <<"a">>,
   events |-> << InputEv(1, "insertText", Some(<<"b">>), None, Some(1)),
                 KeyEv(1, "keydown", Some(2)),
                 InputEv(2, "deleteContentBackward", Some(<<>>), None, Some(2)) >>]

\* each event appends one unit (its position is past the end of the buffer,
\* which substring clamps): the text is the history of the applied events
DocAppend ==
  [initial_text |-> <<>>,
   events |-> << InputEv(1, "insertText", Some(<<"x">>), None, Some(9)),
                 InputEv(2, "insertText", Some(<<"y">>), None, Some(9)) >>]

DocEmpty == [initial_text |-> <<>>, events |-> <<>>]

Docs == {DocHi, DocDelta, DocEmpty}

\* --------------------------------------------------------------- engine
\* The engine, the reconstructor it feeds and the pending setTimeout timers
\* as one record w, so that one handler (a whole call chain) is one step.
\*   timers   : pending setTimeout callbacks [id, due, event], oldest first;
\*              `event` is the constant the callback closes over
\*   timeoutId: 0 is null
\*   log      : the handler calls made so far by the running operation
\*   threw    : an exception is propagating
\*   resumeP, resumeRef: virtual time and Date.now() of the latest resume
\*   stopped  : "caller" or "handler" (who called it) when stop() has returned
\*              and neither play() nor seek() was called since, else "no"
\*   afterStop: a handler was invoked while `stopped`

GetCurrentTime(w, wallMs) ==
  IF w.isPlaying THEN TimesSpeed(wallMs * UnitsPerMs - w.startTime, w.speed)
  ELSE w.pausedAt

GetDuration(w) ==
  IF Len(w.events) = 0 THEN 0 ELSE w.events[Len(w.events)].time

ClearTimeout(timers, id) == SelectSeq(timers, LAMBDA t : t.id /= id)

FreeId(timers) ==
  CHOOSE i \in 1..(Len(timers) + 1) :
    /\ \A k \in 1..Len(timers) : timers[k].id /= i
    /\ \A j \in 1..(i - 1) : \E k \in 1..Len(timers) : timers[k].id = j

\* setTimeout(cb, delay): the delay is truncated to whole milliseconds
TimeoutMs(timeUntilEvent, s) ==
  IF timeUntilEvent <= 0 THEN 0
  ELSE (timeUntilEvent * s[2]) \div (s[1] * UnitsPerMs)

\* scheduleNextEvent() ignoring the loop option at the end of the events
scheduleNextEvent_NoLoop(w, wallMs) ==
  IF ~w.isPlaying THEN w
  ELSE IF w.currentIndex >= Len(w.events) THEN [w EXCEPT !.isPlaying = FALSE]
  ELSE
    LET event == w.events[w.currentIndex + 1]
        currentTime == TimesSpeed(wallMs * UnitsPerMs - w.startTime, w.speed)
        timeUntilEvent == event.time * UnitsPerMs - currentTime
        id == FreeId(w.timers)
    IN [w EXCEPT !.timers = Append(w.timers,
                     [id |-> id,
                      due |-> wallMs + TimeoutMs(timeUntilEvent, w.speed),
                      event |-> event]),
                 !.timeoutId = id]

RECURSIVE scheduleNextEvent(_, _)
scheduleNextEvent(w, wallMs) ==
  IF ~w.isPlaying THEN w
  ELSE IF w.currentIndex >= Len(w.events) THEN
    IF w.loop THEN
      LET w1 == [w EXCEPT !.currentIndex = 0,
                          !.startTime = wallMs * UnitsPerMs,
                          !.pausedAt = 0,
                          !.resumeP = 0, !.resumeRef = wallMs]
      IN IF Len(w.events) = 0
         THEN [w1 EXCEPT !.threw = TRUE]   \* unbounded recursion: RangeError
         ELSE scheduleNextEvent(w1, wallMs)
    ELSE [w EXCEPT !.isPlaying = FALSE]
  ELSE
    LET event == w.events[w.currentIndex + 1]
        currentTime == TimesSpeed(wallMs * UnitsPerMs - w.startTime, w.speed)
        timeUntilEvent == event.time * UnitsPerMs - currentTime
        id == FreeId(w.timers)
    IN [w EXCEPT !.timers = Append(w.timers,
                     [id |-> id,
                      due |-> wallMs + TimeoutMs(timeUntilEvent, w.speed),
                      event |-> event]),
                 !.timeoutId = id]

\* play() without its early return for an engine that is already playing
play_NoGuard(w, wallMs) ==
  IF Len(w.events) = 0 THEN w
  ELSE scheduleNextEvent(
         [w EXCEPT !.isPlaying = TRUE,
                   !.startTime = WallMinus(wallMs, w.pausedAt, w.speed),
                   !.resumeP = w.pausedAt, !.resumeRef = wallMs],
         wallMs)

\* play() resuming at pausedAt * speed of wall time instead of pausedAt / speed
play_MulOffset(w, wallMs) ==
  IF w.isPlaying THEN w
  ELSE IF Len(w.events) = 0 THEN w
  ELSE scheduleNextEvent(
         [w EXCEPT !.isPlaying = TRUE,
                   !.startTime = wallMs * UnitsPerMs - TimesSpeed(w.pausedAt, w.speed),
                   !.resumeP = w.pausedAt, !.resumeRef = wallMs],
         wallMs)

play(w, wallMs) ==
  IF w.isPlaying THEN w
  ELSE IF Len(w.events) = 0 THEN w
  ELSE scheduleNextEvent(
         [w EXCEPT !.isPlaying = TRUE,
                   !.startTime = WallMinus(wallMs, w.pausedAt, w.speed),
                   !.resumeP = w.pausedAt, !.resumeRef = wallMs],
         wallMs)

\* pause() leaving the pending timer in place
pause_KeepsTimer(w, wallMs) ==
  IF ~w.isPlaying THEN w
  ELSE [w EXCEPT !.isPlaying = FALSE,
                 !.pausedAt = TimesSpeed(wallMs * UnitsPerMs - w.startTime, w.speed),
                 !.timeoutId = 0]

pause(w, wallMs) ==
  IF ~w.isPlaying THEN w
  ELSE [w EXCEPT !.isPlaying = FALSE,
                 !.pausedAt = TimesSpeed(wallMs * UnitsPerMs - w.startTime, w.speed),
                 !.timers = IF w.timeoutId /= 0
                            THEN ClearTimeout(w.timers, w.timeoutId) ELSE @,
                 !.timeoutId = 0]

stop(w, wallMs) ==
  [pause(w, wallMs) EXCEPT !.currentIndex = 0, !.pausedAt = 0]

\* setSpeed() validating its argument after the change instead of before it
setSpeed_CheckLast(w, s, wallMs) ==
  LET wasPlaying == w.isPlaying
      w1 == IF wasPlaying THEN pause(w, wallMs) ELSE w
      w2 == [w1 EXCEPT !.speed = s]
  IN IF s[1] <= 0 THEN [w2 EXCEPT !.threw = TRUE]
     ELSE IF wasPlaying THEN play(w2, wallMs) ELSE w2

setSpeed(w, s, wallMs) ==
  IF s[1] <= 0 THEN [w EXCEPT !.threw = TRUE]
  ELSE LET wasPlaying == w.isPlaying
           w1 == IF wasPlaying THEN pause(w, wallMs) ELSE w
           w2 == [w1 EXCEPT !.speed = s]
       IN IF wasPlaying THEN play(w2, wallMs) ELSE w2

loadEvents(w, evs) ==
  [w EXCEPT !.events = evs, !.currentIndex = 0, !.pausedAt = 0]

onEvent(w, handler) ==
  [w EXCEPT !.onEventHandlers = Append(@, handler)]

\* Array.prototype.indexOf, 1-based; 0 when absent
IndexOf(seq, x) ==
  IF \E i \in 1..Len(seq) : seq[i] = x
  THEN CHOOSE i \in 1..Len(seq) : seq[i] = x /\ \A j \in 1..(i - 1) : seq[j] /= x
  ELSE 0

offEvent(w, handler) ==
  LET index == IndexOf(w.onEventHandlers, handler)
  IN IF index > 0
     THEN [w EXCEPT !.onEventHandlers =
                      SubSeq(@, 1, index - 1) \o SubSeq(@, index + 1, Len(@))]
     ELSE w

\* The subscribers.  "apply" is the handler the KakiatoPlayer constructor
\* registers; "rec" only observes; "stopper" calls stop(), "remover" removes
\* itself with offEvent, "speeder" calls setSpeed(HandlerSpeed).
CallHandler(w, h, event, wallMs) ==
  CASE h = "apply" ->
         IF ApplyThrows(event) THEN [w EXCEPT !.threw = TRUE]
         ELSE [w EXCEPT !.state = applyEvent(w.state, event)]
    [] h = "stopper" -> [stop(w, wallMs) EXCEPT !.stopped = "handler"]
    [] h = "remover" -> offEvent(w, "remover")
    [] h = "speeder" -> setSpeed(w, HandlerSpeed, wallMs)
    [] OTHER -> w

\* for (const handler of this.onEventHandlers) handler(event, index):
\* the array iterator reads the live array at positions 0, 1, 2, ...
RECURSIVE EmitFrom(_, _, _, _, _)
EmitFrom(w, i, event, index, wallMs) ==
  IF w.threw \/ i > Len(w.onEventHandlers) THEN w
  ELSE LET h == w.onEventHandlers[i]
           w1 == [w EXCEPT !.log = Append(@, [h |-> h, event |-> event,
                                               index |-> index]),
                           !.afterStop = @ \/ w.stopped /= "no"]
       IN EmitFrom(CallHandler(w1, h, event, wallMs), i + 1, event, index, wallMs)

emitEvent(w, event, index, wallMs) == EmitFrom(w, 1, event, index, wallMs)

\* the timer callback delivering its event without scheduling the next one
TimerCallback_NoReschedule(w, event, wallMs) ==
  LET w1 == emitEvent(w, event, w.currentIndex, wallMs)
  IN IF w1.threw THEN w1 ELSE [w1 EXCEPT !.currentIndex = @ + 1]

\* the setTimeout callback of scheduleNextEvent
TimerCallback(w, event, wallMs) ==
  LET w1 == emitEvent(w, event, w.currentIndex, wallMs)
  IN IF w1.threw THEN w1
     ELSE scheduleNextEvent([w1 EXCEPT !.currentIndex = @ + 1], wallMs)

\* seek's scan: the last i with events[i].time <= time before the first
\* later event, 0 when there is none (0-based)
RECURSIVE ScanTarget(_, _, _, _)
ScanTarget(evs, time, i, targetIndex) ==
  IF i >= Len(evs) THEN targetIndex
  ELSE IF evs[i + 1].time <= time THEN ScanTarget(evs, time, i + 1, i)
  ELSE targetIndex

EventAt(w, i) == IF i < Len(w.events) THEN w.events[i + 1] ELSE Undefined

RECURSIVE SeekReplay(_, _, _, _)
SeekReplay(w, i, targetIndex, wallMs) ==
  IF w.threw \/ i > targetIndex THEN w
  ELSE SeekReplay(emitEvent(w, EventAt(w, i), i, wallMs), i + 1, targetIndex, wallMs)

seek(w, time, wallMs) ==
  LET wasPlaying == w.isPlaying
      w1 == pause(w, wallMs)
      targetIndex == ScanTarget(w1.events, time, 0, 0)
      w2 == [w1 EXCEPT !.currentIndex = targetIndex,
                       !.pausedAt = time * UnitsPerMs]
      w3 == SeekReplay(w2, 0, targetIndex, wallMs)
  IN IF w3.threw THEN w3
     ELSE IF wasPlaying THEN play(w3, wallMs) ELSE w3

\* ------------------------------------------------------- KakiatoPlayer
\* load() without the reset of the reconstructor
PlayerLoad_NoReset(w, doc) ==
  loadEvents([w EXCEPT !.document = Some(doc)], doc.events)

PlayerLoad(w, doc) ==
  [loadEvents([w EXCEPT !.document = Some(doc)], doc.events)
     EXCEPT !.state = NewState(doc.initial_text)]

\* The strings given to loadJSON, by what JSON.parse makes of them: a syntax
\* error, the value null, an object.  `doc` is the object as load() reads
\* it: a missing initial_text is undefined, for which reset() takes ''.
JsonSyntaxError ==
  [parses |-> FALSE, isObject |-> FALSE, hasInitialText |-> FALSE, doc |-> DocEmpty]
JsonNull ==
  [parses |-> TRUE, isObject |-> FALSE, hasInitialText |-> FALSE, doc |-> DocEmpty]
JsonNoInitialText ==
  [parses |-> TRUE, isObject |-> TRUE, hasInitialText |-> FALSE,
   doc |-> [initial_text |-> <<>>, events |-> DocDelta.events]]
JsonOf(doc) ==
  [parses |-> TRUE, isObject |-> TRUE, hasInitialText |-> TRUE, doc |-> doc]
JsonInputs == {JsonSyntaxError, JsonNull, JsonNoInitialText, JsonOf(DocHi)}

\* loadJSON(json): JSON.parse throws a SyntaxError; load(null) assigns
\* this.document and throws a TypeError on document.events; load(object)
\* checks nothing
loadJSON(w, json) ==
  IF ~json.parses THEN [w EXCEPT !.threw = TRUE]
  ELSE IF ~json.isObject THEN [w EXCEPT !.document = None, !.threw = TRUE]
  ELSE PlayerLoad(w, json.doc)

PlayerPlay(w, wallMs) ==
  IF ~IsSome(w.document) THEN [w EXCEPT !.threw = TRUE] ELSE play(w, wallMs)

PlayerStop(w, wallMs) ==
  LET w1 == stop(w, wallMs)
  IN IF IsSome(w1.document)
     THEN [w1 EXCEPT !.state = NewState(Get(w1.document).initial_text)]
     ELSE w1


\* ---------------------------------------------------------------- state
\* KakiatoRecorder. isRecording, events, startTime: the fields;
\* sessionMetadata: 0 is null, otherwise the number of the session (its id
\* is fresh); attached: the sets of capture handlers listening on the target
NewRecorder ==
  [isRecording |-> FALSE, events |-> <<>>, sessionMetadata |-> 0,
   startTime |-> 0, attached |-> 0]

\* start() without its early return for a recorder that is recording
recorderStart_NoGuard(r, wallMs) ==
  [r EXCEPT !.isRecording = TRUE, !.events = <<>>, !.startTime = wallMs,
            !.sessionMetadata = @ + 1, !.attached = @ + 1]

recorderStart(r, wallMs) ==
  IF r.isRecording THEN r
  ELSE [r EXCEPT !.isRecording = TRUE, !.events = <<>>, !.startTime = wallMs,
                 !.sessionMetadata = @ + 1, !.attached = @ + 1]

\* stop() detaches the handlers its fields refer to
recorderStop(r) ==
  IF ~r.isRecording THEN r
  ELSE [r EXCEPT !.isRecording = FALSE, !.attached = @ - 1]

\* a DOM event on the target: every attached handler builds its event and
\* calls onEvent, which appends it while isRecording
RECURSIVE recorderCapture(_, _, _, _)
recorderCapture(r, n, type, wallMs) ==
  IF n = 0 THEN r
  ELSE recorderCapture(
         IF r.isRecording
         THEN [r EXCEPT !.events = Append(@, Ev(wallMs - r.startTime, type))]
         ELSE r,
         n - 1, type, wallMs)

VARIABLES
  events, currentIndex, isPlaying, speed, loop, timeoutId, startTime,
  pausedAt, onEventHandlers,          \* PlaybackEngine's fields
  state, document,                    \* the reconstructor's state, the player's document
  timers, now,                        \* pending setTimeout callbacks, Date.now()
  log, threw, lastOp, lastArg,        \* the last operation: its handler calls, whether it threw
  resumeP, resumeRef,                 \* history: the latest resume
  stopped, afterStop,                 \* history: stop() returned; a handler ran after it
  track, trackV, trackAt,             \* history: a pause of a playing engine at virtual
                                      \* time trackV and wall time trackAt, then its resume
  recorder                            \* a KakiatoRecorder

vars == <<events, currentIndex, isPlaying, speed, loop, timeoutId, startTime,
          pausedAt, onEventHandlers, state, document, timers, now,
          log, threw, lastOp, lastArg, resumeP, resumeRef, stopped, afterStop,
          track, trackV, trackAt, recorder>>

\* the state as the record the operators work on; an operation starts with
\* an empty log and no exception
W ==
  [events |-> events, currentIndex |-> currentIndex, isPlaying |-> isPlaying,
   speed |-> speed, loop |-> loop, timeoutId |-> timeoutId,
   startTime |-> startTime, pausedAt |-> pausedAt,
   onEventHandlers |-> onEventHandlers, state |-> state,
   document |-> document, timers |-> timers,
   log |-> <<>>, threw |-> FALSE,
   resumeP |-> resumeP, resumeRef |-> resumeRef,
   stopped |-> stopped, afterStop |-> FALSE]

Commit(w) ==
  /\ events' = w.events
  /\ currentIndex' = w.currentIndex
  /\ isPlaying' = w.isPlaying
  /\ speed' = w.speed
  /\ loop' = w.loop
  /\ timeoutId' = w.timeoutId
  /\ startTime' = w.startTime
  /\ pausedAt' = w.pausedAt
  /\ onEventHandlers' = w.onEventHandlers
  /\ state' = w.state
  /\ document' = w.document
  /\ timers' = w.timers
  /\ log' = w.log
  /\ threw' = w.threw
  /\ resumeP' = w.resumeP
  /\ resumeRef' = w.resumeRef
  /\ stopped' = w.stopped
  /\ afterStop' = w.afterStop

\* the bounds every operation respects
Bounded(w) ==
  /\ Len(w.state.text) <= MaxText
  /\ Len(w.timers) <= MaxTimers

ExtraHandlers == {"rec", "stopper", "remover", "speeder"}

\* new KakiatoPlayer(): a PlaybackEngine at speed 1, not looping, with the
\* player's handler subscribed, a StateReconstructor(''), no document
Init ==
  /\ events = <<>>
  /\ currentIndex = 0
  /\ isPlaying = FALSE
  /\ speed = <<1, 1>>
  /\ loop = FALSE
  /\ timeoutId = 0
  /\ startTime = 0
  /\ pausedAt = 0
  /\ onEventHandlers = <<"apply">>
  /\ state = NewState(<<>>)
  /\ document = None
  /\ timers = <<>>
  /\ now = 0
  /\ log = <<>>
  /\ threw = FALSE
  /\ lastOp = "new"
  /\ lastArg = 0
  /\ resumeP = 0
  /\ resumeRef = 0
  /\ stopped = "no"
  /\ afterStop = FALSE
  /\ track = "none"
  /\ trackV = 0
  /\ trackAt = 0
  /\ recorder = NewRecorder

\* ------------------------------------------------------------- actions
\* the wall clock advances by one millisecond
Tick ==
  /\ now < MaxNow
  /\ now' = now + 1
  /\ lastOp' = "tick" /\ lastArg' = 0
  /\ log' = <<>> /\ threw' = FALSE /\ afterStop' = FALSE
  /\ track' = IF track = "resumed" THEN "none" ELSE track
  /\ UNCHANGED <<events, currentIndex, isPlaying, speed, loop, timeoutId,
                 startTime, pausedAt, onEventHandlers, state, document,
                 timers, resumeP, resumeRef, stopped, trackV, trackAt>>
  /\ UNCHANGED recorder

\* the timer the event loop runs next: the earliest due, the oldest of those
NextTimer ==
  CHOOSE k \in 1..Len(timers) :
    \A j \in 1..Len(timers) :
      \/ timers[k].due < timers[j].due
      \/ timers[k].due = timers[j].due /\ k <= j

\* a due setTimeout callback runs (no earlier than its delay, possibly later)
TimerFire ==
  /\ timers /= <<>>
  /\ timers[NextTimer].due <= now
  /\ LET k == NextTimer
         w0 == [W EXCEPT !.timers = SubSeq(@, 1, k - 1) \o SubSeq(@, k + 1, Len(@))]
         w == TimerCallback(w0, timers[k].event, now)
     IN /\ Bounded(w)
        /\ Commit(w)
        /\ track' = IF track = "paused"
                        /\ \A i \in 1..Len(w.log) : w.log[i].h \notin {"stopper", "speeder"}
                    THEN track ELSE "none"
  /\ lastOp' = "timer" /\ lastArg' = 0
  /\ UNCHANGED <<now, trackV, trackAt>>
  /\ UNCHANGED recorder

Load(doc) ==
  /\ Commit(PlayerLoad(W, doc))
  /\ lastOp' = "load" /\ lastArg' = 0
  /\ track' = "none"
  /\ UNCHANGED <<now, trackV, trackAt>>
  /\ UNCHANGED recorder

Play ==
  /\ LET w == PlayerPlay([W EXCEPT !.stopped = "no"], now)
     IN Bounded(w) /\ Commit(w)
  /\ lastOp' = "play" /\ lastArg' = 0
  /\ track' = IF track = "paused" THEN "resumed" ELSE "none"
  /\ UNCHANGED <<now, trackV, trackAt>>
  /\ UNCHANGED recorder

Pause ==
  /\ Commit(pause(W, now))
  /\ lastOp' = "pause" /\ lastArg' = 0
  /\ IF isPlaying
     THEN track' = "paused" /\ trackV' = GetCurrentTime(W, now) /\ trackAt' = now
     ELSE UNCHANGED <<track, trackV, trackAt>>
  /\ UNCHANGED now
  /\ UNCHANGED recorder

Stop ==
  /\ Commit([PlayerStop(W, now) EXCEPT !.stopped = "caller"])
  /\ lastOp' = "stop" /\ lastArg' = 0
  /\ track' = "none"
  /\ UNCHANGED <<now, trackV, trackAt>>
  /\ UNCHANGED recorder

Seek(time) ==
  /\ LET w == seek([W EXCEPT !.stopped = "no"], time, now)
     IN Bounded(w) /\ Commit(w)
  /\ lastOp' = "seek" /\ lastArg' = time
  /\ track' = "none"
  /\ UNCHANGED <<now, trackV, trackAt>>
  /\ UNCHANGED recorder

SetSpeed(s) ==
  /\ LET w == setSpeed(W, s, now)
     IN Bounded(w) /\ Commit(w)
  /\ lastOp' = "setSpeed" /\ lastArg' = s
  /\ track' = "none"
  /\ UNCHANGED <<now, trackV, trackAt>>
  /\ UNCHANGED recorder

OnEvent(h) ==
  /\ Len(onEventHandlers) <= MaxHandlers
  /\ Commit(onEvent(W, h))
  /\ lastOp' = "onEvent" /\ lastArg' = 0
  /\ UNCHANGED <<now, track, trackV, trackAt>>
  /\ UNCHANGED recorder

OffEvent(h) ==
  /\ Commit(offEvent(W, h))
  /\ lastOp' = "offEvent" /\ lastArg' = 0
  /\ UNCHANGED <<now, track, trackV, trackAt>>
  /\ UNCHANGED recorder

\* ---- the engine used on its own, as in its unit tests
\* new PlaybackEngine({ loop }): no events, no subscriber, speed 1
InitEngine ==
  /\ events = <<>>
  /\ currentIndex = 0
  /\ isPlaying = FALSE
  /\ speed = <<1, 1>>
  /\ loop \in BOOLEAN
  /\ timeoutId = 0
  /\ startTime = 0
  /\ pausedAt = 0
  /\ onEventHandlers = <<>>
  /\ state = NewState(<<>>)
  /\ document = None
  /\ timers = <<>>
  /\ now = 0
  /\ log = <<>>
  /\ threw = FALSE
  /\ lastOp = "new"
  /\ lastArg = 0
  /\ resumeP = 0
  /\ resumeRef = 0
  /\ stopped = "no"
  /\ afterStop = FALSE
  /\ track = "none"
  /\ trackV = 0
  /\ trackAt = 0
  /\ recorder = NewRecorder

LoadEvents(evs) ==
  /\ Commit(loadEvents(W, evs))
  /\ lastOp' = "loadEvents" /\ lastArg' = 0
  /\ track' = "none"
  /\ UNCHANGED <<now, trackV, trackAt>>
  /\ UNCHANGED recorder

EnginePlay ==
  /\ LET w == play([W EXCEPT !.stopped = "no"], now)
     IN Bounded(w) /\ Commit(w)
  /\ lastOp' = "enginePlay" /\ lastArg' = 0
  /\ track' = IF track = "paused" THEN "resumed" ELSE "none"
  /\ UNCHANGED <<now, trackV, trackAt>>
  /\ UNCHANGED recorder

\* ---- the reconstructor used on its own, as in its unit tests
\* the UTF-16 units of the buffers, and the units events bring
Units == {"a", "b"}
StartTexts == UNION {[1..n -> Units] : n \in 0..MaxStartLen}

\* the states a StateReconstructor can be in when an event arrives: any
\* buffer; a cursor and a selection set by earlier keydown and
\* selectionchange events; composing or not
StartStates ==
  {[text |-> t, cursorPosition |-> c, selectionStart |-> sel[1],
    selectionEnd |-> sel[2], isComposing |-> comp[1],
    compositionText |-> comp[2]] :
     t \in StartTexts, c \in 0..MaxStartLen,
     sel \in {<<0, 0>>, <<0, 1>>},
     comp \in {<<FALSE, <<>>>>, <<TRUE, <<"k">>>>}}

InputTypes ==
  {"insertText", "insertCompositionText", "deleteContentBackward",
   "deleteContentForward", "deleteByCut", "historyUndo"}
Datas == {None, Some(<<>>), Some(<<"x">>), Some(<<"x", "y">>)}
Snapshots == {None, Some(<<>>), Some(<<"x", "y">>)}
Positions == {None} \cup {Some(p) : p \in -1..(MaxStartLen + 1)}

\* the events given to applyEvent
ApplyEvents ==
  {InputEv(0, it, d, t, p) :
     it \in InputTypes, d \in Datas, t \in Snapshots, p \in Positions}
  \cup {KeyEv(0, ty, p) : ty \in {"keydown", "keyup"}, p \in Positions}
  \cup {[Ev(0, ty) EXCEPT !.data = d] :
          ty \in {"compositionstart", "compositionupdate", "compositionend"},
          d \in Datas}
  \cup {[Ev(0, "selectionchange") EXCEPT !.anchor = a, !.focus = f] :
          a \in Positions, f \in Positions}
  \cup {Ev(0, ty) : ty \in {"beforeinput", "focus", "blur", "custom", "unknown"}}

InitApply ==
  /\ events = <<>>
  /\ currentIndex = 0
  /\ isPlaying = FALSE
  /\ speed = <<1, 1>>
  /\ loop = FALSE
  /\ timeoutId = 0
  /\ startTime = 0
  /\ pausedAt = 0
  /\ onEventHandlers = <<>>
  /\ state \in StartStates
  /\ document = None
  /\ timers = <<>>
  /\ now = 0
  /\ log = <<>>
  /\ threw = FALSE
  /\ lastOp = "new"
  /\ lastArg = 0
  /\ resumeP = 0
  /\ resumeRef = 0
  /\ stopped = "no"
  /\ afterStop = FALSE
  /\ track = "none"
  /\ trackV = 0
  /\ trackAt = 0
  /\ recorder = NewRecorder

\* reconstructor.applyEvent(event)
ApplyEvent(event) ==
  /\ lastOp = "new"
  /\ IF ApplyThrows(event)
     THEN threw' = TRUE /\ state' = state
     ELSE threw' = FALSE /\ state' = applyEvent(state, event)
  /\ lastOp' = "applyEvent" /\ lastArg' = event
  /\ UNCHANGED <<events, currentIndex, isPlaying, speed, loop, timeoutId,
                 startTime, pausedAt, onEventHandlers, document, timers, now,
                 log, resumeP, resumeRef, stopped, afterStop,
                 track, trackV, trackAt>>
  /\ UNCHANGED recorder

\* reconstructor.applyEvent(event) with the same event once more
ApplyAgain ==
  /\ lastOp = "applyEvent" /\ ~threw
  /\ state' = applyEvent(state, lastArg)
  /\ lastOp' = "applyAgain"
  /\ UNCHANGED <<events, currentIndex, isPlaying, speed, loop, timeoutId,
                 startTime, pausedAt, onEventHandlers, document, timers, now,
                 log, threw, lastArg, resumeP, resumeRef, stopped, afterStop,
                 track, trackV, trackAt>>
  /\ UNCHANGED recorder

LoadJSON(json) ==
  /\ Commit(loadJSON(W, json))
  /\ lastOp' = "loadJSON" /\ lastArg' = json
  /\ track' = "none"
  /\ UNCHANGED <<now, trackV, trackAt>>
  /\ UNCHANGED recorder

\* ---- the recorder
RecorderStart ==
  /\ recorder.sessionMetadata < MaxSessions
  /\ recorder' = recorderStart(recorder, now)
  /\ lastOp' = "recorderStart"
  /\ UNCHANGED <<events, currentIndex, isPlaying, speed, loop, timeoutId,
                 startTime, pausedAt, onEventHandlers, state, document, timers,
                 now, log, threw, lastArg, resumeP, resumeRef, stopped,
                 afterStop, track, trackV, trackAt>>

RecorderStop ==
  /\ recorder' = recorderStop(recorder)
  /\ lastOp' = "recorderStop"
  /\ UNCHANGED <<events, currentIndex, isPlaying, speed, loop, timeoutId,
                 startTime, pausedAt, onEventHandlers, state, document, timers,
                 now, log, threw, lastArg, resumeP, resumeRef, stopped,
                 afterStop, track, trackV, trackAt>>

\* the user does something on the target
Capture(type) ==
  /\ LET r == recorderCapture(recorder, recorder.attached, type, now)
     IN Len(r.events) <= MaxRecorded /\ recorder' = r
  /\ lastOp' = "capture"
  /\ UNCHANGED <<events, currentIndex, isPlaying, speed, loop, timeoutId,
                 startTime, pausedAt, onEventHandlers, state, document, timers,
                 now, log, threw, lastArg, resumeP, resumeRef, stopped,
                 afterStop, track, trackV, trackAt>>

\* the player driven through its own interface
Next ==
  \/ Tick
  \/ TimerFire
  \/ \E doc \in Docs : Load(doc)
  \/ Play
  \/ Pause
  \/ Stop
  \/ \E time \in 0..MaxSeek : Seek(time)

Spec == Init /\ [][Next]_vars

\* the engine's clock under speed changes
NextTiming ==
  \/ Tick
  \/ TimerFire
  \/ \E doc \in {DocHi, DocEmpty} : Load(doc)
  \/ Play
  \/ Pause
  \/ \E s \in Speeds : SetSpeed(s)

SpecTiming == Init /\ [][NextTiming]_vars

\* one document loaded into a new player, then played, paused and changed
\* in speed between the deliveries
NextFresh ==
  \/ Tick
  \/ TimerFire
  \/ document = None /\ \E doc \in {DocAppend, DocHi} : Load(doc)
  \/ Play
  \/ Pause
  \/ \E s \in Speeds : SetSpeed(s)

SpecFresh == Init /\ [][NextFresh]_vars

\* the engine with further subscribers, some of which call back into it
NextHandlers ==
  \/ Tick
  \/ TimerFire
  \/ Load(DocHi)
  \/ Play
  \/ Stop
  \/ \E h \in ExtraHandlers : OnEvent(h)
  \/ \E h \in ExtraHandlers : OffEvent(h)

SpecHandlers == Init /\ [][NextHandlers]_vars

\* the engine given valid and invalid speeds
NextSpeedArgs ==
  \/ Tick
  \/ TimerFire
  \/ Load(DocHi)
  \/ Play
  \/ Pause
  \/ \E s \in {HandlerSpeed} \cup BadSpeeds : SetSpeed(s)

SpecSpeedArgs == Init /\ [][NextSpeedArgs]_vars

\* seeking at speeds other than 1
NextSeekSpeed ==
  \/ Tick
  \/ TimerFire
  \/ Load(DocHi)
  \/ Play
  \/ \E s \in Speeds : SetSpeed(s)
  \/ \E time \in 0..MaxSeek : Seek(time)

SpecSeekSpeed == Init /\ [][NextSeekSpeed]_vars

\* the engine on its own, looping or not, with one observing subscriber
NextEngine ==
  \/ Tick
  \/ TimerFire
  \/ \E evs \in {DocHi.events, DocEmpty.events} : LoadEvents(evs)
  \/ EnginePlay
  \/ Pause
  \/ \E time \in 0..MaxSeek : Seek(time)
  \/ onEventHandlers = <<>> /\ OnEvent("rec")

SpecEngine == InitEngine /\ [][NextEngine]_vars

\* a player left alone once it plays: load, seek and play are called on an
\* engine that is not playing, play() while the modelled wall clock still
\* has the document's duration ahead of it; then only time passes and due
\* timers fire, which the event loop guarantees
NextRun ==
  \/ Tick
  \/ TimerFire
  \/ ~isPlaying /\ \E doc \in {DocHi, DocEmpty} : Load(doc)
  \/ ~isPlaying /\ \E time \in 0..MaxSeek : Seek(time)
  \/ ~isPlaying /\ now + GetDuration(W) <= MaxNow /\ Play

SpecRun ==
  Init /\ [][NextRun]_vars /\ WF_vars(Tick) /\ WF_vars(TimerFire)

\* the engine on its own playing whole passes: events are loaded while it
\* is not playing
NextLoop ==
  \/ Tick
  \/ TimerFire
  \/ ~isPlaying /\ \E evs \in {DocHi.events, DocDelta.events} : LoadEvents(evs)
  \/ EnginePlay
  \/ Pause
  \/ \E time \in 0..MaxSeek : Seek(time)
  \/ onEventHandlers = <<>> /\ OnEvent("rec")

SpecLoop == InitEngine /\ [][NextLoop]_vars

\* the reconstructor on its own: one event applied to any state, then again
NextApply ==
  \/ \E event \in ApplyEvents : ApplyEvent(event)
  \/ ApplyAgain

SpecApply == InitApply /\ [][NextApply]_vars

\* the player given JSON strings, well-formed documents or not
NextJson ==
  \/ Tick
  \/ TimerFire
  \/ \E json \in JsonInputs : LoadJSON(json)
  \/ Play

SpecJson == Init /\ [][NextJson]_vars

\* whole replays: a document is loaded into a player that is not playing,
\* then only play() is called
NextReplay ==
  \/ Tick
  \/ TimerFire
  \/ ~isPlaying /\ \E doc \in Docs : Load(doc)
  \/ Play

\* a recorder started, stopped and fed DOM events
NextRecorder ==
  \/ Tick
  \/ RecorderStart
  \/ RecorderStop
  \/ \E type \in {"keydown", "input"} : Capture(type)

SpecRecorder == Init /\ [][NextRecorder]_vars

SpecReplay == Init /\ [][NextReplay]_vars


\* ================================================================ claims
CurrentTime == GetCurrentTime(W, now)

\* the events with time <= t, in array order
EventsUpTo(evs, t) == SelectSeq(evs, LAMBDA e : e.time <= t)

\* the events the handlers were called with, in call order
Delivered == [i \in 1..Len(log) |-> log[i].event]

\* C1: after seek(t) on a loaded document the player's text state is that of
\* a fresh StateReconstructor(initial_text) to which every event with
\* time <= t was applied once, in array order.
C1_SeekStateIsFold ==
  (lastOp = "seek" /\ IsSome(document))
    => state = ApplyAll(NewState(Get(document).initial_text),
                        EventsUpTo(events, lastArg))

\* C2: after seek(t) with events loaded, getCurrentTime() is exactly t and
\* getCurrentIndex() is found + 1 (the number of events with time <= t), so
\* the delivery scheduled on resume is that of event found + 1.
C2_SeekPosition ==
  (lastOp = "seek" /\ Len(events) > 0)
    => /\ CurrentTime = lastArg * UnitsPerMs
       /\ currentIndex = Len(EventsUpTo(events, lastArg))
       /\ (isPlaying /\ timers /= <<>>)
            => timers[Len(timers)].event
                 = EventAt(W, Len(EventsUpTo(events, lastArg)))

\* C3: seek(t) delivers to the handlers exactly the events with time <= t,
\* each once and in array order, and nothing when there is none.
C3_SeekDelivers ==
  lastOp = "seek" => Delivered = EventsUpTo(events, lastArg)

\* C4: immediately after loadEvents the engine is Idle: not playing,
\* index 0, current time 0.
C4_LoadResets ==
  lastOp = "load" => (~isPlaying /\ currentIndex = 0 /\ CurrentTime = 0)


\* C5: after pause() of a playing engine at virtual time V, getCurrentTime()
\* is V while the engine stays paused, and is V again immediately after the
\* next play(), however long the pause lasted.
C5_PauseResumeKeepsTime ==
  track \in {"paused", "resumed"}
    => /\ CurrentTime = trackV
       /\ track = "paused" => ~isPlaying

\* C5, reached: a resume into Playing after a pause that lasted, at a
\* positive virtual time and a speed other than 1
C5_Witness ==
  /\ track = "resumed" /\ isPlaying
  /\ now > trackAt /\ trackV > 0 /\ speed /= <<1, 1>>

\* C6: setSpeed(s), s > 0, while Playing leaves getCurrentTime() unchanged
\* at the instant of the call, leaves the engine Playing and makes
\* getSpeed() = s.
C6_SetSpeedNoJump ==
  [][(lastOp' = "setSpeed" /\ isPlaying)
       => (CurrentTime' = CurrentTime /\ isPlaying' /\ speed' = lastArg')]_vars

\* C7: while Playing, getCurrentTime() = P + (wallNow - resumeWallRef) * S,
\* P and resumeWallRef being the virtual time and the wall clock of the
\* latest resume.
C7_TimingRelation ==
  isPlaying
    => CurrentTime
         = resumeP + TimesSpeed((now - resumeRef) * UnitsPerMs, speed)


\* C8: once stop() has returned, the engine invokes no handler until the
\* next play() or seek() call, whoever called stop().
C8_NoDeliveryAfterStop == ~afterStop

\* the number of positions of seq holding x
Count(seq, x) == Cardinality({i \in 1..Len(seq) : seq[i] = x})

\* C9: after stop(), getIsPlaying() = false, getCurrentIndex() = 0 and
\* getCurrentTime() = 0 until the next play, seek or loadEvents call.
C9_StopResets ==
  stopped = "caller" => (~isPlaying /\ currentIndex = 0 /\ CurrentTime = 0)

\* C10: a handler removing itself with offEvent during a delivery changes
\* nothing for the others: every other handler registered when the delivery
\* began is called exactly once for that event.
C10_RemovalKeepsOthers ==
  [][lastOp' = "timer"
       => \A h \in {"apply"} \cup ExtraHandlers :
            h /= "remover"
              => Count([i \in 1..Len(log') |-> log'[i].h], h)
                   = Count(onEventHandlers, h)]_vars

\* the handlers called by the last operation, in call order
LogHandlers == [i \in 1..Len(log) |-> log[i].h]

\* C11: a delivery calls every handler registered when it begins exactly
\* once, in registration order: the calls it makes are the handler list. A
\* handler removed before the delivery is not in the list, so it is not called.
C11_DeliveryOrder ==
  [][lastOp' = "timer" => LogHandlers' = onEventHandlers]_vars

\* C12: setSpeed(s) with s <= 0 raises its error and changes nothing: speed,
\* isPlaying, index, virtual time, wall-clock reference and the pending
\* timer are those before the call, Playing or not.
C12_BadSpeedRejected ==
  [][(lastOp' = "setSpeed" /\ lastArg'[1] <= 0)
       => /\ threw'
          /\ CurrentTime' = CurrentTime
          /\ UNCHANGED <<speed, isPlaying, currentIndex, pausedAt, startTime,
                         timeoutId, timers, events, state>>]_vars

\* C12, reached: a rejected setSpeed on an engine that has been playing for
\* a while with a delivery pending
C12_Witness ==
  /\ lastOp = "setSpeed" /\ lastArg[1] <= 0 /\ threw
  /\ isPlaying /\ timers /= <<>> /\ now > resumeRef

\* C13: the engine's play() on an engine that is already playing or has no
\* events raises nothing, schedules nothing and leaves isPlaying, the index,
\* the virtual time and the wall-clock reference as they were. (The player
\* reaches the engine's play() once a document is loaded.)
C13_PlayNoOp ==
  [][(lastOp' = "play" /\ IsSome(document) /\ (isPlaying \/ Len(events) = 0))
       => /\ ~threw'
          /\ CurrentTime' = CurrentTime
          /\ UNCHANGED <<isPlaying, currentIndex, pausedAt, startTime,
                         timeoutId, timers>>]_vars

\* C13, reached: play() returned on an engine that was resumed earlier and
\* is still playing with its one delivery pending
C13_Witness ==
  /\ lastOp = "play" /\ ~threw /\ isPlaying
  /\ now > resumeRef /\ Len(timers) = 1

\* C13, reached: play() returned on an engine with an empty event list
C13_WitnessEmpty ==
  /\ lastOp = "play" /\ ~threw /\ IsSome(document)
  /\ Len(events) = 0 /\ ~isPlaying /\ timers = <<>>

\* C14: once seek(t) has returned, getCurrentTime() >= t, whether the engine
\* was paused before the seek or was playing and has resumed.
C14_SeekNotBefore ==
  (lastOp = "seek" /\ ~threw) => CurrentTime >= lastArg * UnitsPerMs

\* C15: seek(t) restores the playing state: when it has returned,
\* getIsPlaying() is what it was just before the call, for every t and
\* every prior state.
C15_SeekKeepsPlaying ==
  [][(lastOp' = "seek" /\ ~threw') => isPlaying' = isPlaying]_vars

\* C16: with looping off, an engine playing a non-empty event list and left
\* alone eventually is Finished: not playing, the index at the number of
\* events, no delivery scheduled; and on the way every timer callback
\* delivers the event at the index and moves the index on by one, so every
\* remaining event is delivered.
C16_PlaysToEnd ==
  /\ (isPlaying /\ ~loop /\ Len(events) > 0)
       ~> (~isPlaying /\ currentIndex = Len(events) /\ timers = <<>>)
  /\ [][lastOp' = "timer"
          => /\ Delivered' = <<events[currentIndex + 1]>>
             /\ currentIndex' = currentIndex + 1]_vars

\* C16, reached: the timer callback of the last event left the engine
\* Finished
C16_Witness ==
  /\ lastOp = "timer" /\ ~loop /\ Len(events) > 0 /\ now > 0
  /\ ~isPlaying /\ currentIndex = Len(events) /\ timers = <<>>

C18_SnapshotWins ==
  (lastOp \in {"applyEvent", "applyAgain"}
     /\ lastArg.type = "input" /\ IsSome(lastArg.text))
    => state.text = Get(lastArg.text)

\* C18, reached: a snapshot applied from an event that also carries a
\* delete-backward delta and a position
C18_Witness ==
  /\ lastOp = "applyEvent" /\ lastArg.type = "input"
  /\ lastArg.inputType = "deleteContentBackward"
  /\ lastArg.data = Some(<<"x">>) /\ lastArg.pos = Some(0)
  /\ lastArg.text = Some(<<"x", "y">>) /\ state.text = <<"x", "y">>

\* the position an input event acts at: its pos, the cursor when it has none
PosOf(st, event) ==
  IF IsSome(event.pos) THEN Get(event.pos) ELSE st.cursorPosition

\* C19: a delta insert of d (no snapshot; insertText or
\* insertCompositionText) at a position p inside the buffer splices d in at
\* p and leaves the cursor at p + len(d).
C19_DeltaInsert ==
  [][(lastOp' = "applyEvent" /\ lastArg'.type = "input"
        /\ lastArg'.inputType \in {"insertText", "insertCompositionText"}
        /\ ~IsSome(lastArg'.text) /\ IsSome(lastArg'.data)
        /\ PosOf(state, lastArg') \in 0..Len(state.text))
       => LET p == PosOf(state, lastArg')
              d == Get(lastArg'.data)
          IN /\ state'.text = SubSeq(state.text, 1, p) \o d
                                 \o SubSeq(state.text, p + 1, Len(state.text))
             /\ state'.cursorPosition = p + Len(d)]_vars

\* C20: a delta delete-backward (no snapshot, with or without data) at a
\* position p, 0 < p <= len(text), removes the unit at index p - 1 and
\* nothing else.
C20_DeltaDeleteBackward ==
  [][(lastOp' = "applyEvent" /\ lastArg'.type = "input"
        /\ lastArg'.inputType = "deleteContentBackward"
        /\ ~IsSome(lastArg'.text)
        /\ PosOf(state, lastArg') \in 1..Len(state.text))
       => LET p == PosOf(state, lastArg')
          IN state'.text = SubSeq(state.text, 1, p - 1)
                             \o SubSeq(state.text, p + 1, Len(state.text))]_vars

\* C21: a delta delete-forward (no snapshot, with or without data) at a
\* position p, 0 <= p < len(text), removes the unit at index p and nothing
\* else.
C21_DeltaDeleteForward ==
  [][(lastOp' = "applyEvent" /\ lastArg'.type = "input"
        /\ lastArg'.inputType = "deleteContentForward"
        /\ ~IsSome(lastArg'.text)
        /\ PosOf(state, lastArg') \in 0..(Len(state.text) - 1))
       => LET p == PosOf(state, lastArg')
          IN state'.text = SubSeq(state.text, 1, p)
                             \o SubSeq(state.text, p + 2, Len(state.text))]_vars

\* C22: a delta delete-backward at a position <= 0 and a delta
\* delete-forward at a position >= len(text) leave the text unchanged.
C22_DeleteAtEdge ==
  [][(lastOp' = "applyEvent" /\ lastArg'.type = "input"
        /\ ~IsSome(lastArg'.text)
        /\ \/ lastArg'.inputType = "deleteContentBackward"
                /\ PosOf(state, lastArg') <= 0
           \/ lastArg'.inputType = "deleteContentForward"
                /\ PosOf(state, lastArg') >= Len(state.text))
       => state'.text = state.text]_vars

\* C22, reached: a delete-backward with data at position -1 applied to a
\* buffer that is still two units long
C22_Witness ==
  /\ lastOp = "applyEvent" /\ lastArg.type = "input"
  /\ lastArg.inputType = "deleteContentBackward"
  /\ lastArg.text = None /\ lastArg.data = Some(<<"x">>)
  /\ lastArg.pos = Some(-1) /\ Len(state.text) = 2

\* C22, reached: a delete-forward with data at the end of a two-unit buffer
C22_WitnessForward ==
  /\ lastOp = "applyEvent" /\ lastArg.type = "input"
  /\ lastArg.inputType = "deleteContentForward"
  /\ lastArg.text = None /\ lastArg.data = Some(<<"x">>)
  /\ lastArg.pos = Some(2) /\ Len(state.text) = 2

\* C23: a selectionchange with anchor a and focus f sets selectionStart to
\* the smaller, selectionEnd to the larger and cursorPosition to f, and
\* changes neither the text nor the composition fields.
C23_SelectionChange ==
  [][(lastOp' = "applyEvent" /\ lastArg'.type = "selectionchange"
        /\ IsSome(lastArg'.anchor) /\ IsSome(lastArg'.focus))
       => LET a == Get(lastArg'.anchor)
              f == Get(lastArg'.focus)
          IN /\ ~threw'
             /\ state'.selectionStart = (IF a <= f THEN a ELSE f)
             /\ state'.selectionEnd = (IF a <= f THEN f ELSE a)
             /\ state'.cursorPosition = f
             /\ state'.text = state.text
             /\ state'.isComposing = state.isComposing
             /\ state'.compositionText = state.compositionText]_vars

\* C23, reached: a forward selection 1..3 applied, the cursor at the focus
C23_Witness ==
  /\ lastOp = "applyEvent" /\ lastArg.type = "selectionchange"
  /\ lastArg.anchor = Some(1) /\ lastArg.focus = Some(3)
  /\ state.selectionStart = 1 /\ state.selectionEnd = 3
  /\ state.cursorPosition = 3 /\ state.isComposing

\* C24: after a selectionchange the selection lies inside the text:
\* 0 <= selectionStart <= selectionEnd <= len(text), whatever the anchor and
\* focus indices were.
C24_SelectionClamped ==
  (lastOp = "applyEvent" /\ lastArg.type = "selectionchange" /\ ~threw)
    => /\ 0 <= state.selectionStart
       /\ state.selectionStart <= state.selectionEnd
       /\ state.selectionEnd <= Len(state.text)

\* the string a composition event carries, '' when it has none
DataOf(event) == IF IsSome(event.data) THEN Get(event.data) ELSE <<>>

\* C25: after a compositionupdate the state is composing and compositionText
\* is the event's data ('' when absent), whether or not a compositionstart
\* came before.
C25_UpdateIsComposing ==
  (lastOp = "applyEvent" /\ lastArg.type = "compositionupdate")
    => (state.isComposing /\ state.compositionText = DataOf(lastArg))

\* C26: no composition event changes text, cursorPosition, selectionStart
\* or selectionEnd, whatever data it carries.
C26_CompositionKeepsBuffer ==
  [][(lastOp' = "applyEvent"
        /\ lastArg'.type \in {"compositionstart", "compositionupdate",
                               "compositionend"})
       => /\ ~threw'
          /\ state'.text = state.text
          /\ state'.cursorPosition = state.cursorPosition
          /\ state'.selectionStart = state.selectionStart
          /\ state'.selectionEnd = state.selectionEnd]_vars

\* C26, reached: a compositionupdate carrying "xy" applied to a buffer of
\* two units with a selection; the string is in compositionText only
C26_Witness ==
  /\ lastOp = "applyEvent" /\ lastArg.type = "compositionupdate"
  /\ lastArg.data = Some(<<"x", "y">>)
  /\ state.compositionText = <<"x", "y">>
  /\ state.text = <<"a", "b">> /\ state.selectionEnd = 1

\* C27: after a compositionend, from any state and whatever data it
\* carries, isComposing = false and compositionText = ''.
C27_EndClears ==
  (lastOp \in {"applyEvent", "applyAgain"} /\ lastArg.type = "compositionend")
    => (~state.isComposing /\ state.compositionText = <<>>)

\* C27, reached: a compositionend carrying "xy" applied
C27_Witness ==
  /\ lastOp = "applyEvent" /\ lastArg.type = "compositionend"
  /\ lastArg.data = Some(<<"x", "y">>)
  /\ ~state.isComposing /\ state.compositionText = <<>>
  /\ state.text = <<"a", "b">>

\* C28: a keydown or keyup with a pos sets cursorPosition to it and changes
\* no other field; without a pos it changes nothing.
C28_KeyOnlyMovesCursor ==
  [][(lastOp' = "applyEvent" /\ lastArg'.type \in {"keydown", "keyup"})
       => /\ ~threw'
          /\ state' = IF IsSome(lastArg'.pos)
                      THEN [state EXCEPT !.cursorPosition = Get(lastArg'.pos)]
                      ELSE state]_vars

\* C28, reached: a keydown at position 3 applied to a composing state with
\* a selection 0..1, which it kept
C28_Witness ==
  /\ lastOp = "applyEvent" /\ lastArg.type = "keydown"
  /\ lastArg.pos = Some(3) /\ state.cursorPosition = 3
  /\ state.selectionStart = 0 /\ state.selectionEnd = 1
  /\ state.isComposing /\ state.text = <<"a">>

\* C29: beforeinput, focus, blur, custom and unknown event kinds leave the
\* TextState as it was, field for field.
C29_OtherKindsNoOp ==
  [][(lastOp' = "applyEvent"
        /\ lastArg'.type \in {"beforeinput", "focus", "blur", "custom", "unknown"})
       => (~threw' /\ state' = state)]_vars

\* C29, reached: a custom event applied to a composing state with a moved
\* cursor and a selection
C29_Witness ==
  /\ lastOp = "applyEvent" /\ lastArg.type = "custom"
  /\ state.cursorPosition = 2 /\ state.selectionEnd = 1
  /\ state.isComposing /\ state.compositionText = <<"k">>
  /\ state.text = <<"a", "b">>

\* C30: applyEvent raises no exception, whatever the event.
C30_ApplyNeverThrows ==
  lastOp = "applyEvent" => ~threw

\* C31: a keydown, keyup or delta input event whose pos lies outside the
\* buffer (pos < 0 or pos > len(text)) is a no-op: the TextState after
\* applyEvent is the TextState before.
C31_OutOfRangeNoOp ==
  [][(lastOp' = "applyEvent"
        /\ \/ lastArg'.type \in {"keydown", "keyup"}
           \/ lastArg'.type = "input" /\ ~IsSome(lastArg'.text)
        /\ IsSome(lastArg'.pos)
        /\ (Get(lastArg'.pos) < 0 \/ Get(lastArg'.pos) > Len(state.text)))
       => state' = state]_vars

\* C32: a snapshot input event applied a second time leaves the TextState
\* of the first application; a delta insert with non-empty data applied a
\* second time inserts its data again, so the buffer differs.
C32_SnapshotIdempotent ==
  [][(lastOp' = "applyAgain" /\ lastArg.type = "input")
       => /\ IsSome(lastArg.text) => state' = state
          /\ (~IsSome(lastArg.text) /\ IsSome(lastArg.data)
                /\ Get(lastArg.data) /= <<>>
                /\ lastArg.inputType \in {"insertText", "insertCompositionText"})
               => /\ state'.text /= state.text
                  /\ Len(state'.text) = Len(state.text) + Len(Get(lastArg.data))]_vars

\* C32, reached: the delta insert of "x" at position 0 applied twice to a
\* one-unit buffer
C32_Witness ==
  /\ lastOp = "applyAgain" /\ lastArg.type = "input"
  /\ lastArg.inputType = "insertText" /\ lastArg.text = None
  /\ lastArg.data = Some(<<"x">>) /\ lastArg.pos = Some(0)
  /\ Len(state.text) = 3 /\ SubSeq(state.text, 1, 2) = <<"x", "x">>

\* C32, reached: a snapshot applied twice
C32_WitnessSnapshot ==
  /\ lastOp = "applyAgain" /\ lastArg.type = "input"
  /\ lastArg.text = Some(<<"x", "y">>) /\ lastArg.data = Some(<<"x">>)
  /\ state.text = <<"x", "y">>

\* C33: loadJSON of a string that does not parse or is not a document (not
\* an object, no initial_text) raises to the caller and leaves the loaded
\* document, the engine's events, index and time and the text state as
\* they were.
C33_LoadAllOrNothing ==
  [][(lastOp' = "loadJSON"
        /\ (~lastArg'.parses \/ ~lastArg'.isObject \/ ~lastArg'.hasInitialText))
       => /\ threw'
          /\ CurrentTime' = CurrentTime
          /\ UNCHANGED <<document, events, currentIndex, pausedAt, state>>]_vars

\* C34: when load(doc) and then play() alone have run the player to
\* Finished, its text state is the fold of applyEvent over doc.events from
\* initial_text; for the two-event document that is text "hi", cursor 2.
C34_ReplayIsFold ==
  (IsSome(document) /\ ~isPlaying
     /\ Len(events) > 0 /\ currentIndex = Len(events))
    => /\ state = ApplyAll(NewState(Get(document).initial_text), events)
       /\ document = Some(DocHi)
            => (state.text = <<"h", "i">> /\ state.cursorPosition = 2)

\* C34, reached: the timer callback of the last event of the two-event
\* document left the player Finished with text "hi"
C34_Witness ==
  /\ lastOp = "timer" /\ document = Some(DocHi)
  /\ ~isPlaying /\ currentIndex = 2 /\ timers = <<>>
  /\ state.text = <<"h", "i">> /\ state.cursorPosition = 2

\* C34, reached: the same for the document of delta events
C34_WitnessDelta ==
  /\ lastOp = "timer" /\ document = Some(DocDelta)
  /\ ~isPlaying /\ currentIndex = 3 /\ timers = <<>>
  /\ state.text = <<"a">>

\* C35: start() on a recorder that is recording changes nothing: events,
\* session metadata, start time and the attached handlers are as before;
\* so every captured event is appended exactly once while recording.
C35_StartTwiceNoOp ==
  [][/\ (lastOp' = "recorderStart" /\ recorder.isRecording)
          => recorder' = recorder
     /\ (lastOp' = "capture" /\ recorder.isRecording)
          => /\ Len(recorder'.events) = Len(recorder.events) + 1
             /\ SubSeq(recorder'.events, 1, Len(recorder.events)) = recorder.events]_vars

\* C35, reached: an event captured after a second start(), still the only
\* event after the one recorded before that start()
C35_Witness ==
  /\ lastOp = "capture" /\ recorder.isRecording
  /\ recorder.sessionMetadata = 1 /\ recorder.attached = 1
  /\ Len(recorder.events) = 2
  /\ recorder.events[1].time = 0 /\ recorder.events[2].time > 0

\* C36: in every reachable state at most one scheduled delivery is pending,
\* whatever the caller and the handlers call.
C36_OnePendingTimer == Len(timers) <= 1

\* C37: after a fresh load, with looping off and only play, pause and
\* setSpeed(s > 0) called between deliveries, the handler has received
\* exactly events[1..currentIndex], each once and in array order, in every
\* state; in Finished that is the whole list.
C37_EachEventOnce ==
  IsSome(document) =>
    /\ currentIndex <= Len(events)
    /\ state = ApplyAll(NewState(Get(document).initial_text),
                        SubSeq(events, 1, currentIndex))
    /\ (lastOp = "timer" /\ ~isPlaying) => currentIndex = Len(events)

\* C37, reached: Finished at speed 3 after a resume in the middle of the
\* recording, with both appended units delivered once
C37_Witness ==
  /\ lastOp = "timer" /\ ~isPlaying /\ document = Some(DocAppend)
  /\ currentIndex = 2 /\ state.text = <<"x", "y">>
  /\ speed = <<3, 1>> /\ resumeP > 0

\* C38: in scheduled playback a timer delivers its event only when the
\* virtual time has reached the event's timestamp.
C38_NotBeforeTimestamp ==
  [][(lastOp' = "timer" /\ isPlaying /\ timers /= <<>>)
       => CurrentTime >= timers[NextTimer].event.time * UnitsPerMs]_vars

\* C39: after a load made while the engine is playing, the next delivery is
\* that of the first event of the new list, and of no event of the old one.
C39_LoadWhilePlaying ==
  [][(lastOp = "load" /\ isPlaying /\ lastOp' = "timer" /\ events /= <<>>)
       => /\ log' /= <<>>
          /\ \A i \in 1..Len(log') : log'[i].event = events[1]]_vars

\* C40: once playback without loop has delivered the last event and the
\* engine is no longer playing, getCurrentTime() is at least getDuration().
C40_FinishedAtDuration ==
  (/\ lastOp = "timer" /\ ~isPlaying /\ ~loop
   /\ events /= <<>> /\ currentIndex = Len(events))
    => CurrentTime >= GetDuration(W) * UnitsPerMs

====
